---- MODULE Spec2Model ----
(***************************************************************************)
(* Cat Alert Tool: the fetch-with-retry routine (fetch.py get_cats), the   *)
(* result-card parser (fetch.py parse_cat_div), the sqlite-backed store    *)
(* (db.py CatDB) and the reconciliation step (db.py CatDB.process_cats).   *)
(*                                                                         *)
(* Python values are tagged tuples, so that values of different Python     *)
(* types are different values here too: None, PyStr("A"), PyInt(3) and the  *)
(* 1-tuple PyTuple(<<PyStr("A")>>) are pairwise distinct, as in Python.    *)
(***************************************************************************)
EXTENDS Integers, Sequences, FiniteSets, TLC

VARIABLES
    pc,               \* position of the single thread of control
    fetch_attempts,   \* config.requests.fetch_attempts
    attempts,         \* get_cats: local `attempts`
    response,         \* get_cats: local `response`
    log,              \* get_cats: the requests.get / time.sleep calls made, in order
    succeeded,        \* get_cats: some attempt of this call passed raise_for_status
    parsed,           \* get_cats: the response whose text was parsed, or None
    result,           \* get_cats: the returned list[Cat]
    exc,              \* the exception that escaped the running operation, or "none"
    con,              \* CatDB._con
    cur,              \* CatDB._cur
    opened,           \* number of sqlite connections this CatDB has open
    db,               \* the sqlite file: the table `cats`, if any, and its rows
    db0,              \* the sqlite file as it was when the current cycle started
    con0,             \* CatDB._con as it was when the last operation started
    arg,              \* the argument of the last query on the store
    ret,              \* the value the last query on the store returned
    new_cat_ids,      \* process_cats: local `new_cat_ids`
    adopted_cat_ids,  \* process_cats: local `adopted_cat_ids`
    events,           \* the pub.sendMessage calls of the current cycle, in order
    prev,             \* the record set of the cycle before the current one, or None
    age_pc,           \* the age function applied last, or "input"
    cat_age,          \* Cat.age, the input of get_human_readable_age
    readable_age,     \* the string get_human_readable_age returned
    cat_age_string,   \* the input of parse_cat_age_string
    parsed_age        \* the number parse_cat_age_string returned

mainVars == <<pc, fetch_attempts, attempts, response, log, succeeded, parsed, result,
              exc, con, cur, opened, db, db0, con0, arg, ret,
              new_cat_ids, adopted_cat_ids, events, prev>>

ageVars == <<age_pc, cat_age, readable_age, cat_age_string, parsed_age>>

vars == <<mainVars, ageVars>>

(***************************************************************************)
(* Bounds of the model.                                                    *)
(***************************************************************************)
MaxFetchAttempts == 2
MaxCards == 2
MaxRows == 2
\* The largest age in days that is rendered.
MaxAge == 751
\* The largest quantity of an age text.
MaxQuantity == 5

(***************************************************************************)
(* Python / sqlite values.                                                 *)
(***************************************************************************)
None == <<"none">>
PyStr(s) == <<"str", s>>
PyInt(n) == <<"int", n>>
PyTuple(t) == <<"tuple", t>>

\* Python truthiness of a value: None, "" and 0 are falsy.
Truthy(v) == v # None /\ v # PyStr("") /\ v # PyInt(0)

\* The elements of a sequence, as a set.
Range(s) == {s[i] : i \in 1..Len(s)}

(***************************************************************************)
(* constants.py                                                            *)
(***************************************************************************)
DAYS_PER_YEAR == 365
DAYS_PER_MONTH == 30
DAYS_PER_WEEK == 7
TABLE_NAME == "cats"

\* One tuple per column, as PRAGMA table_info reports it:
\* (cid, name, type, notnull, dflt_value, pk).
DB_SCHEMA ==
    << <<0, "id", "INTEGER", 0, None, 1>>,
       <<1, "pet_id", "TEXT", 0, None, 0>>,
       <<2, "name", "TEXT", 0, None, 0>>,
       <<3, "gender", "TEXT", 0, None, 0>>,
       <<4, "color", "TEXT", 0, None, 0>>,
       <<5, "breed", "TEXT", 0, None, 0>>,
       <<6, "age", "INTEGER", 0, None, 0>>,
       <<7, "url", "TEXT", 0, None, 0>>,
       <<8, "image", "TEXT", 0, None, 0>> >>

(***************************************************************************)
(* The sqlite file.  A table is the list of its column definitions, as the *)
(* CREATE TABLE statement gave them, and the set of its rows.              *)
(***************************************************************************)
Col(name, type, notnull, pk, unique) ==
    [name |-> name, type |-> type, notnull |-> notnull, pk |-> pk, unique |-> unique]

\* The CREATE TABLE statement without UNIQUE on pet_id.
CreateTableColumnsWithoutUnique ==
    << Col("id", "INTEGER", FALSE, TRUE, FALSE),
       Col("pet_id", "TEXT", FALSE, FALSE, FALSE),
       Col("name", "TEXT", FALSE, FALSE, FALSE),
       Col("gender", "TEXT", FALSE, FALSE, FALSE),
       Col("color", "TEXT", FALSE, FALSE, FALSE),
       Col("breed", "TEXT", FALSE, FALSE, FALSE),
       Col("age", "INTEGER", FALSE, FALSE, FALSE),
       Col("url", "TEXT", FALSE, FALSE, FALSE),
       Col("image", "TEXT", FALSE, FALSE, FALSE) >>

\* The columns of the CREATE TABLE statement of CatDB._initialize_db.
CreateTableColumns ==
    << Col("id", "INTEGER", FALSE, TRUE, FALSE),
       Col("pet_id", "TEXT", FALSE, FALSE, TRUE),
       Col("name", "TEXT", FALSE, FALSE, FALSE),
       Col("gender", "TEXT", FALSE, FALSE, FALSE),
       Col("color", "TEXT", FALSE, FALSE, FALSE),
       Col("breed", "TEXT", FALSE, FALSE, FALSE),
       Col("age", "INTEGER", FALSE, FALSE, FALSE),
       Col("url", "TEXT", FALSE, FALSE, FALSE),
       Col("image", "TEXT", FALSE, FALSE, FALSE) >>

NoTable == [exists |-> FALSE, columns |-> <<>>, rows |-> {}]
Table(columns, rows) == [exists |-> TRUE, columns |-> columns, rows |-> rows]

\* PRAGMA table_info(cats); fetchall(): one tuple per column, in column
\* order; the empty list when there is no such table.
TableInfo(d) ==
    IF ~d.exists THEN <<>>
    ELSE [i \in 1..Len(d.columns) |->
            <<i - 1, d.columns[i].name, d.columns[i].type,
              IF d.columns[i].notnull THEN 1 ELSE 0, None,
              IF d.columns[i].pk THEN 1 ELSE 0>>]

(***************************************************************************)
(* db.py: CatDB.  The object and its file are the record                   *)
(* [con, cur, opened, db]; each method maps the record before the call to  *)
(* the record after it.                                                    *)
(***************************************************************************)
Connection == <<"object", "sqlite3.Connection">>
Cursor == <<"object", "sqlite3.Cursor">>

\* CatDB.__init__: no connection yet; the file is whatever it was.
CatDB(file) == [con |-> None, cur |-> None, opened |-> 0, db |-> file]

\* A connect without the test of the connection.
_connect_to_db_unguarded(s) ==
    [s EXCEPT !.con = Connection, !.cur = Cursor, !.opened = @ + 1]

_connect_to_db(s) ==
    IF Truthy(s.con) THEN s
    ELSE [s EXCEPT !.con = Connection, !.cur = Cursor, !.opened = @ + 1]

\* A disconnect that closes the connection and keeps the cursor.
_disconnect_from_db_keeps_cursor(s) ==
    IF Truthy(s.con) THEN [s EXCEPT !.con = None, !.opened = @ - 1] ELSE s

_disconnect_from_db(s) ==
    LET s1 == IF Truthy(s.con) THEN [s EXCEPT !.con = None, !.opened = @ - 1] ELSE s
    IN  IF Truthy(s1.cur) THEN [s1 EXCEPT !.cur = None] ELSE s1

\* CREATE TABLE IF NOT EXISTS cats (...)
_initialize_db(s) ==
    IF ~Truthy(s.cur) THEN s
    ELSE IF s.db.exists THEN s
    ELSE [s EXCEPT !.db = Table(CreateTableColumns, {})]

\* A drop without the test of the cursor.
_drop_db_unguarded(s) == [s EXCEPT !.db = NoTable]

\* DROP TABLE IF EXISTS cats
_drop_db(s) ==
    IF ~Truthy(s.cur) THEN s
    ELSE [s EXCEPT !.db = NoTable]

\* A validation that compares the column names only, in any order.
_is_db_schema_valid_names_only(s) ==
    IF ~Truthy(s.cur) THEN FALSE
    ELSE {c[2] : c \in Range(TableInfo(s.db))} = {c[2] : c \in Range(DB_SCHEMA)}

_is_db_schema_valid(s) ==
    IF ~Truthy(s.cur) THEN FALSE
    ELSE TableInfo(s.db) = DB_SCHEMA

\* An initialisation that recreates the table whatever its columns.
initialize_db_always_recreates(s) ==
    _initialize_db(_drop_db(_connect_to_db(s)))

initialize_db(s) ==
    LET s1 == _connect_to_db(s)
    IN  IF ~_is_db_schema_valid(s1) THEN _initialize_db(_drop_db(s1)) ELSE s1

\* The CatDB object and its file in the current state.
Self == [con |-> con, cur |-> cur, opened |-> opened, db |-> db]

(***************************************************************************)
(* fetch.py: Gender and Cat.                                               *)
(***************************************************************************)
\* The member names of the enum Gender that db.py imports (fetch.py).
GenderNames == {"male", "female"}
Gender(name) == <<"Gender", name>>

\* str.upper() and str.lower() on the strings of the model.
Upper(x) ==
    CASE x \in {"male", "Male", "MALE"} -> "MALE"
      [] x \in {"female", "Female", "FEMALE"} -> "FEMALE"
      [] x \in {"unknown", "Unknown", "UNKNOWN"} -> "UNKNOWN"
      [] x \in {"a", "A"} -> "A"
      [] x \in {"b", "B"} -> "B"
      [] x \in {"c", "C"} -> "C"
      [] x \in {"y", "Y"} -> "Y"
      [] x \in {"z", "Z"} -> "Z"
      [] x \in {"tom", "Tom", "TOM"} -> "TOM"
      [] x \in {"black", "Black", "BLACK"} -> "BLACK"
      [] x \in {"dsh", "Dsh", "DSH"} -> "DSH"
      [] x = "" -> ""

Lower(x) ==
    CASE x \in {"male", "Male", "MALE"} -> "male"
      [] x \in {"female", "Female", "FEMALE"} -> "female"
      [] x \in {"unknown", "Unknown", "UNKNOWN"} -> "unknown"
      [] x \in {"a", "A"} -> "a"
      [] x \in {"b", "B"} -> "b"
      [] x \in {"c", "C"} -> "c"
      [] x \in {"y", "Y"} -> "y"
      [] x \in {"z", "Z"} -> "z"
      [] x \in {"tom", "Tom", "TOM"} -> "tom"
      [] x \in {"black", "Black", "BLACK"} -> "black"
      [] x \in {"dsh", "Dsh", "DSH"} -> "dsh"
      [] x = "" -> ""

\* Cat.__init__
NewCat ==
    [url |-> PyStr(""), image |-> PyStr(""), name |-> PyStr(""), id |-> PyStr(""),
     gender |-> None, color |-> PyStr(""), breed |-> PyStr(""), age |-> PyInt(0)]

\* A rendering that always has the plural form.
PartAlwaysPlural(n, unit) == ToString(n) \o " " \o unit \o "s"

\* f"{n} {unit}{'s' if n != 1 else ''}"
Part(n, unit) == ToString(n) \o " " \o unit \o (IF n # 1 THEN "s" ELSE "")

\* ", ".join(parts)
RECURSIVE Join(_)
Join(parts) ==
    IF parts = <<>> THEN ""
    ELSE IF Len(parts) = 1 THEN parts[1]
    ELSE parts[1] \o ", " \o Join(Tail(parts))

\* A rendering that leaves the weeks out.
get_human_readable_age_without_weeks(age) ==
    LET years == age \div DAYS_PER_YEAR
        days1 == age % DAYS_PER_YEAR
        months == days1 \div DAYS_PER_MONTH
        days2 == days1 % DAYS_PER_MONTH
        days == days2 % DAYS_PER_WEEK
        parts == (IF years > 0 THEN <<Part(years, "year")>> ELSE <<>>)
                 \o (IF months > 0 THEN <<Part(months, "month")>> ELSE <<>>)
                 \o (IF days > 0 THEN <<Part(days, "day")>> ELSE <<>>)
    IN  IF Len(parts) > 0 THEN Join(parts) ELSE ""

\* Cat.get_human_readable_age() of a cat whose age is `age`.
get_human_readable_age(age) ==
    LET years == age \div DAYS_PER_YEAR
        days1 == age % DAYS_PER_YEAR
        months == days1 \div DAYS_PER_MONTH
        days2 == days1 % DAYS_PER_MONTH
        weeks == days2 \div DAYS_PER_WEEK
        days == days2 % DAYS_PER_WEEK
        parts == (IF years > 0 THEN <<Part(years, "year")>> ELSE <<>>)
                 \o (IF months > 0 THEN <<Part(months, "month")>> ELSE <<>>)
                 \o (IF weeks > 0 THEN <<Part(weeks, "week")>> ELSE <<>>)
                 \o (IF days > 0 THEN <<Part(days, "day")>> ELSE <<>>)
    IN  IF Len(parts) > 0 THEN Join(parts) ELSE ""

(***************************************************************************)
(* db.py: the queries.  A method that can raise returns                    *)
(* [raised |-> the exception or "none", value |-> the value returned].     *)
(***************************************************************************)
Return(v) == [raised |-> "none", value |-> v]
Raise(e) == [raised |-> e, value |-> None]

\* `x or default`
Or(x, default) == IF Truthy(x) THEN x ELSE default

\* Gender[name]: lookup of an enum member by name.
GenderByName(name) ==
    IF name \in GenderNames THEN Return(Gender(name)) ELSE Raise("KeyError")

_row_to_cat(row) ==
    LET gender == IF row.gender = None THEN Return(None)
                  ELSE IF row.gender[1] # "str" THEN Raise("AttributeError")
                  ELSE GenderByName(Upper(row.gender[2]))
    IN  IF gender.raised # "none" THEN Raise(gender.raised)
        ELSE Return([url |-> Or(row.url, PyStr("")),
                     image |-> Or(row.image, PyStr("")),
                     name |-> Or(row.name, PyStr("")),
                     id |-> Or(row.id, PyStr("")),
                     gender |-> gender.value,
                     color |-> Or(row.color, PyStr("")),
                     breed |-> Or(row.breed, PyStr("")),
                     age |-> Or(row.age, PyInt(0))])

\* The table has a column of that name.
HasColumn(d, name) == \E i \in 1..Len(d.columns) : d.columns[i].name = name

\* Preparing a statement that names cats.pet_id: "no such table",
\* "no such column".
PreparePetIdQuery(d) ==
    IF ~d.exists \/ ~HasColumn(d, "pet_id") THEN Raise("sqlite3.OperationalError")
    ELSE Return(None)

\* SELECT pet_id FROM cats; fetchall() gives one 1-tuple per row.
get_cat_ids(s) ==
    IF ~Truthy(s.cur) THEN Return({})
    ELSE IF PreparePetIdQuery(s.db).raised # "none" THEN PreparePetIdQuery(s.db)
    ELSE Return({PyTuple(<<r.pet_id>>) : r \in s.db.rows})

\* The rows of a set in rowid order.
RECURSIVE RowsInOrder(_)
RowsInOrder(rows) ==
    IF rows = {} THEN <<>>
    ELSE LET first == CHOOSE r \in rows : \A q \in rows : r.id[2] <= q.id[2]
         IN  <<first>> \o RowsInOrder(rows \ {first})

\* The cats of a sequence of rows, or the first exception of _row_to_cat.
RECURSIVE RowsToCats(_)
RowsToCats(rows) ==
    IF rows = <<>> THEN Return(<<>>)
    ELSE LET head == _row_to_cat(Head(rows))
             rest == RowsToCats(Tail(rows))
         IN  IF head.raised # "none" THEN head
             ELSE IF rest.raised # "none" THEN rest
             ELSE Return(<<head.value>> \o rest.value)

\* cursor.execute("SELECT * FROM cats WHERE pet_id = ?", params): the
\* statement has one placeholder; sqlite3 binds None, int and str.
SelectByPetId(s, params) ==
    IF PreparePetIdQuery(s.db).raised # "none" THEN PreparePetIdQuery(s.db)
    ELSE IF Cardinality(params) # 1 THEN Raise("sqlite3.ProgrammingError")
    ELSE LET p == CHOOSE x \in params : TRUE
         IN  IF p[1] \notin {"none", "str", "int"} THEN Raise("sqlite3.ProgrammingError")
             ELSE Return(RowsInOrder({r \in s.db.rows : r.pet_id # None /\ r.pet_id = p}))

get_cats(s, cat_ids) ==
    IF ~Truthy(s.cur) THEN Return(<<>>)
    ELSE IF cat_ids = {} THEN Return(<<>>)
    ELSE LET rows == SelectByPetId(s, cat_ids)
         IN  IF rows.raised # "none" THEN rows ELSE RowsToCats(rows.value)

\* pub.sendMessage(topic, cats=cats)
Message(topic, cats) == [topic |-> topic, cats |-> cats]

\* The locals, the messages sent and the exception raised by one call.
process_cats(s, cats) ==
    LET cat_ids == {cats[i].id : i \in 1..Len(cats)}
        stored == get_cat_ids(s)
        curr_cat_ids == IF stored.raised = "none" THEN stored.value ELSE {}
        new == cat_ids \ curr_cat_ids
        adopted == curr_cat_ids \ cat_ids
        new_cats == SelectSeq(cats, LAMBDA cat : cat.id \in new)
        sent1 == IF new # {} THEN <<Message("cats.new", new_cats)>> ELSE <<>>
        adopted_cats == IF adopted # {} THEN get_cats(s, adopted) ELSE Return(<<>>)
        sent2 == IF adopted # {} /\ adopted_cats.raised = "none"
                 THEN <<Message("cats.adopted", adopted_cats.value)>> ELSE <<>>
    IN  IF stored.raised # "none"
        THEN [new_cat_ids |-> {}, adopted_cat_ids |-> {},
              sent |-> <<>>, raised |-> stored.raised]
        ELSE [new_cat_ids |-> new, adopted_cat_ids |-> adopted,
              sent |-> sent1 \o sent2, raised |-> adopted_cats.raised]

(***************************************************************************)
(* fetch.py: the parser.  A text of the page is one of                     *)
(*   <<"plain", s>>            the string s, which has neither of the      *)
(*                             shapes below;                               *)
(*   <<"name_id", n, i>>       the string n + " (" + i + ")";              *)
(*   <<"age", qs, old>>        the quantities qs, each <<n, unit>>, joined *)
(*                             by ", ", followed by " old" when old.       *)
(* A result card is [href, src, text_fields]: the href of its first <a>,   *)
(* the src of its first <img> (None when there is none) and the texts of   *)
(* its div.gridText elements.                                              *)
(***************************************************************************)
Plain(x) == <<"plain", x>>
NameId(n, i) == <<"name_id", n, i>>
Age(qs, old) == <<"age", qs, old>>

\* The values of the enum Gender.
GenderValues == {"male", "female"}

\* re.match(r"^(.*)\s\((.*)\)$", ...): (name lowercased, id uppercased).
parse_name_id_string(t) ==
    IF t[1] = "name_id" THEN <<PyStr(Lower(t[2])), PyStr(Upper(t[3]))>>
    ELSE <<PyStr(""), PyStr("")>>

\* Gender(gender_string.lower()), None on ValueError.
parse_gender_string(t) ==
    IF t[1] = "plain" /\ Lower(t[2]) \in GenderValues THEN Gender(Lower(t[2]))
    ELSE None

\* The quantity of the first match of r"(\d+)\s*<unit>(?:s)?", or 0.
RECURSIVE FirstQuantity(_, _)
FirstQuantity(qs, unit) ==
    IF qs = <<>> THEN 0
    ELSE IF Head(qs)[2] \in {unit, unit \o "s"} THEN Head(qs)[1]
    ELSE FirstQuantity(Tail(qs), unit)

\* A parse that counts the days of the text as well.
parse_cat_age_string_counts_days(t) ==
    IF t[1] # "age" THEN 0
    ELSE FirstQuantity(t[2], "year") * 365
         + FirstQuantity(t[2], "month") * 30
         + FirstQuantity(t[2], "week") * 7
         + FirstQuantity(t[2], "day")

parse_cat_age_string(t) ==
    IF t[1] # "age" THEN 0
    ELSE FirstQuantity(t[2], "year") * 365
         + FirstQuantity(t[2], "month") * 30
         + FirstQuantity(t[2], "week") * 7

\* get_text(strip=True).lower() of a text.
LowerText(t) ==
    CASE t[1] = "plain" -> Lower(t[2])
      [] t[1] = "name_id" -> Lower(t[2]) \o " (" \o Lower(t[3]) \o ")"
      [] OTHER -> "<age>"

\* config.requests.base_url
base_url == "https://shelter"

\* cat_div.find("a", href=True, on_duplicate_attribute="ignore"): the
\* keyword is an attribute filter, so the anchor is found only when it has
\* an href and an attribute on_duplicate_attribute of value "ignore".
FindAnchor(div) ==
    IF div.href # None /\ div.on_duplicate_attribute = PyStr("ignore")
    THEN div.href ELSE None

parse_cat_div(div) ==
    LET cat0 == NewCat
        a_tag == FindAnchor(div)
        cat1 == IF a_tag # None
                THEN [cat0 EXCEPT !.url = PyStr(base_url \o a_tag[2])] ELSE cat0
        cat2 == IF div.src # None
                THEN [cat1 EXCEPT !.image = PyStr(base_url \o div.src[2])] ELSE cat1
        tf == div.text_fields
    IN  IF tf = <<>> THEN Return(cat2)
        ELSE IF Len(tf) < 6 THEN Raise("IndexError")
        ELSE Return([cat2 EXCEPT
                        !.name = parse_name_id_string(tf[2])[1],
                        !.id = parse_name_id_string(tf[2])[2],
                        !.gender = parse_gender_string(tf[3]),
                        !.color = PyStr(LowerText(tf[4])),
                        !.breed = PyStr(LowerText(tf[5])),
                        !.age = PyInt(parse_cat_age_string(tf[6]))])

\* The loop over soup.find_all("div", class_="gridResult").
RECURSIVE ParseDivs(_)
ParseDivs(divs) ==
    IF divs = <<>> THEN Return(<<>>)
    ELSE LET head == parse_cat_div(Head(divs))
             rest == ParseDivs(Tail(divs))
         IN  IF head.raised # "none" THEN head
             ELSE IF rest.raised # "none" THEN rest
             ELSE Return(<<head.value>> \o rest.value)

(***************************************************************************)
(* The inputs: the sqlite files the program may find, the pages the site   *)
(* may serve.                                                              *)
(***************************************************************************)
\* The values of an INSERT INTO cats (id, pet_id, name, gender, age).
Row(id, pet_id, name, gender, age) ==
    [id |-> id, pet_id |-> pet_id, name |-> name, gender |-> gender,
     color |-> None, breed |-> None, age |-> age, url |-> None, image |-> None]

RowPool ==
    { Row(PyInt(1), PyStr("A"), PyStr("tom"), None, PyInt(758)),
      Row(PyInt(2), PyStr("B"), None, None, None),
      Row(PyInt(3), PyStr("C"), PyStr("tom"), PyStr("male"), PyInt(150)) }

\* Two INSERTs of one pet_id.
DuplicateRows ==
    { Row(PyInt(1), PyStr("A"), PyStr("tom"), None, PyInt(758)),
      Row(PyInt(4), PyStr("A"), None, None, None) }

\* The INSERTs tried on a table: up to MaxRows rows of the pool, or the two
\* of one pet_id.
RowSets == {rows \in SUBSET RowPool : Cardinality(rows) <= MaxRows} \cup {DuplicateRows}

\* The value sqlite keeps in a column of a declared type: a column of TEXT
\* affinity keeps an integer as its decimal text.  (No text of the pool is
\* a numeral, so a column of INTEGER affinity keeps the texts as they are.)
Affinity(type, v) ==
    IF type = "TEXT" /\ v[1] = "int" THEN PyStr(ToString(v[2])) ELSE v

\* The row a table of these columns keeps of the inserted values: one value
\* per column of the table, NULL for a column the INSERT does not name.
StoredRow(cols, r) ==
    [n \in {cols[i].name : i \in 1..Len(cols)} |->
        LET col == cols[CHOOSE i \in 1..Len(cols) : cols[i].name = n]
        IN  IF n \in DOMAIN r THEN Affinity(col.type, r[n]) ELSE None]

StoredRows(cols, rows) == {StoredRow(cols, r) : r \in rows}

\* The constraints of the columns: PRIMARY KEY and NOT NULL columns hold
\* no NULL, PRIMARY KEY and UNIQUE columns hold no value twice.
Allowed(cols, rows) ==
    \A i \in 1..Len(cols) :
        LET n == cols[i].name
        IN  /\ (cols[i].pk \/ cols[i].notnull) => \A r \in rows : r[n] # None
            /\ (cols[i].pk \/ cols[i].unique) =>
                  \A r \in rows : \A q \in rows :
                      (r[n] # None /\ r[n] = q[n]) => r = q

\* Tables whose columns are not the expected ones: two columns swapped, a
\* declared type changed, a NOT NULL flag added, a column added, and an
\* unrelated table.
SwapColumns(cols, i, j) == [cols EXCEPT ![i] = cols[j], ![j] = cols[i]]

DriftedColumns ==
    { SwapColumns(CreateTableColumns, 3, 4),
      [CreateTableColumns EXCEPT ![7].type = "TEXT"],
      [CreateTableColumns EXCEPT ![2].notnull = TRUE],
      Append(CreateTableColumns, Col("updated", "INTEGER", FALSE, FALSE, FALSE)),
      <<Col("id", "INTEGER", FALSE, TRUE, FALSE), Col("note", "TEXT", FALSE, FALSE, FALSE)>> }

\* The files: no table, the table of CatDB._initialize_db, a drifted table,
\* each with rows that its columns admit.
Files ==
    {NoTable}
    \cup {Table(CreateTableColumns, StoredRows(CreateTableColumns, rows)) :
            rows \in {rs \in RowSets :
                        Allowed(CreateTableColumns, StoredRows(CreateTableColumns, rs))}}
    \cup {Table(cols, StoredRows(cols, rows)) :
            cols \in DriftedColumns,
            rows \in {{}, {r \in RowPool : r.id[2] <= MaxRows}}}

CardPool ==
    << [href |-> PyStr("/a"), on_duplicate_attribute |-> None, src |-> PyStr("/a.jpg"),
       text_fields |-> <<Plain(""), NameId("Tom", "a"), Plain("Male"), Plain("Black"),
                         Plain("DSH"), Age(<<<<2, "years">>, <<3, "weeks">>>>, TRUE)>>],
      [href |-> None, on_duplicate_attribute |-> None, src |-> None,
       text_fields |-> <<Plain(""), NameId("Tom", "b"), Plain("Unknown"), Plain("Black"),
                         Plain("DSH"), Age(<<>>, TRUE), Plain("")>>],
      [href |-> PyStr("/c"), on_duplicate_attribute |-> PyStr("ignore"), src |-> None,
       text_fields |-> <<Plain(""), NameId("Tom", "c"), Plain("female"), Plain("Black"),
                         Plain("DSH"), Age(<<<<5, "months">>>>, FALSE)>>],
      [href |-> PyStr("/d"), on_duplicate_attribute |-> None, src |-> None,
       text_fields |-> <<Plain(""), NameId("Tom", "a"), Plain("Male")>>],
      [href |-> PyStr("/e"), on_duplicate_attribute |-> None, src |-> PyStr("/e.jpg"),
       text_fields |-> <<>>] >>

\* The pages: up to MaxCards cards of the pool, in the order of the pool,
\* the same card possibly several times.
PageIndexes ==
    UNION {{f \in [1..n -> 1..Len(CardPool)] : \A i \in 1..(n - 1) : f[i] <= f[i + 1]}
           : n \in 0..MaxCards}

Pages == {[i \in DOMAIN f |-> CardPool[f[i]]] : f \in PageIndexes}

\* The bodies served with a non-success status.
ErrorPages == {p \in Pages : Len(p) = 0 \/ (Len(p) = 1 /\ p[1].href = PyStr("/a"))}

Response(ok, text) == <<"Response", ok, text>>

\* What one requests.get call does: it raises, or returns a response.
Outcomes ==
    {Raise("ConnectionError"), Raise("Timeout")}
    \cup {Return(Response(TRUE, p)) : p \in Pages}
    \cup {Return(Response(FALSE, p)) : p \in ErrorPages}

\* response.raise_for_status()
raise_for_status(r) == IF r[2] THEN Return(None) ELSE Raise("HTTPError")

\* An except clause that leaves the timeouts out.
IsRequestExceptionWithoutTimeout(e) == e \in {"ConnectionError", "HTTPError"}

\* The exceptions requests raises, all subclasses of RequestException.
IsRequestException(e) == e \in {"ConnectionError", "Timeout", "HTTPError"}

(***************************************************************************)
(* The state machine.  One thread of control: between two operations pc    *)
(* names the operation that ended last; inside get_cats it names the       *)
(* position in the function.                                               *)
(***************************************************************************)
Between == {"constructed", "initialize_db", "_disconnect_from_db",
            "returned", "completed", "get_cats_raised", "process_cats_raised",
            "_connect_to_db", "_initialize_db", "_drop_db", "_is_db_schema_valid",
            "get_cat_ids", "get_cats"}

\* The cycle that was skipped for want of data.
SkippedNoData == "skipped"

\* Where a call can start: between two operations, or after a skipped cycle.
CallStarts == Between \cup {SkippedNoData}

\* The object, the file and the locals of the cycle after construction.
InitStore ==
    /\ pc = "constructed"
    /\ fetch_attempts \in 1..MaxFetchAttempts
    /\ attempts = 0
    /\ response = None
    /\ log = <<>>
    /\ succeeded = FALSE
    /\ parsed = None
    /\ result = <<>>
    /\ exc = "none"
    /\ \E file \in Files :
          /\ con = CatDB(file).con
          /\ cur = CatDB(file).cur
          /\ opened = CatDB(file).opened
          /\ db = CatDB(file).db
          /\ db0 = file
          /\ con0 = None
          /\ arg = None
          /\ ret = None
    /\ new_cat_ids = {}
    /\ adopted_cat_ids = {}
    /\ events = <<>>
    /\ prev = None

Init ==
    /\ InitStore
    /\ age_pc = "input"
    /\ cat_age = 0
    /\ readable_age = ""
    /\ cat_age_string = Age(<<>>, FALSE)
    /\ parsed_age = 0

fetchVars == <<fetch_attempts, attempts, response, log, succeeded, parsed, result>>
cycleVars == <<new_cat_ids, adopted_cat_ids, events, prev>>
queryVars == <<arg, ret>>

\* The identifiers a caller may ask for: the ones a file may hold and two
\* that no file holds.
IdPool == {r.pet_id : r \in RowPool} \cup {PyStr("Y"), PyStr("Z")}

\* The locals of the cycle that ended are gone.
ForgetCycle ==
    /\ attempts' = 0
    /\ response' = None
    /\ log' = <<>>
    /\ succeeded' = FALSE
    /\ parsed' = None
    /\ result' = <<>>
    /\ new_cat_ids' = {}
    /\ adopted_cat_ids' = {}
    /\ events' = <<>>
    /\ prev' = None
    /\ UNCHANGED fetch_attempts

\* CatDB.initialize_db()
InitializeDb ==
    /\ pc \in CallStarts
    /\ LET s == initialize_db(Self)
       IN  /\ con' = s.con
           /\ cur' = s.cur
           /\ opened' = s.opened
           /\ db' = s.db
    /\ db0' = db
    /\ con0' = con
    /\ pc' = "initialize_db"
    /\ exc' = "none"
    /\ arg' = None
    /\ ret' = None
    /\ ForgetCycle
    /\ UNCHANGED ageVars

\* CatDB._disconnect_from_db(), also what __del__ runs.
DisconnectFromDb ==
    /\ pc \in CallStarts
    /\ LET s == _disconnect_from_db(Self)
       IN  /\ con' = s.con
           /\ cur' = s.cur
           /\ opened' = s.opened
           /\ db' = s.db
    /\ db0' = db
    /\ con0' = con
    /\ pc' = "_disconnect_from_db"
    /\ exc' = "none"
    /\ arg' = None
    /\ ret' = None
    /\ ForgetCycle
    /\ UNCHANGED ageVars

\* A method of CatDB is called between two operations: s is the object
\* after the call, r what the call returned or raised, a its argument.
StoreCall(op, s, r, a) ==
    /\ pc \in CallStarts
    /\ con' = s.con
    /\ cur' = s.cur
    /\ opened' = s.opened
    /\ db' = s.db
    /\ db0' = db
    /\ con0' = con
    /\ pc' = op
    /\ exc' = r.raised
    /\ arg' = a
    /\ ret' = r.value
    /\ ForgetCycle
    /\ UNCHANGED ageVars

\* CatDB._connect_to_db()
ConnectToDb == StoreCall("_connect_to_db", _connect_to_db(Self), Return(None), None)

\* CatDB._initialize_db()
CreateTable == StoreCall("_initialize_db", _initialize_db(Self), Return(None), None)

\* CatDB._drop_db()
DropDb == StoreCall("_drop_db", _drop_db(Self), Return(None), None)

\* CatDB._is_db_schema_valid()
IsDbSchemaValid ==
    StoreCall("_is_db_schema_valid", Self,
              Return(<<"bool", _is_db_schema_valid(Self)>>), None)

\* CatDB.get_cat_ids()
GetCatIds ==
    LET r == get_cat_ids(Self)
    IN  StoreCall("get_cat_ids", Self,
                  IF r.raised = "none" THEN Return(<<"set", r.value>>) ELSE r, None)

\* CatDB.get_cats(cat_ids)
GetCats ==
    \E cat_ids \in SUBSET IdPool :
        LET r == get_cats(Self, cat_ids)
        IN  StoreCall("get_cats", Self,
                      IF r.raised = "none" THEN Return(PyTuple(r.value)) ELSE r,
                      <<"set", cat_ids>>)

\* The loop test with <= in place of <.
WhileTestInclusive(a) == IF a <= fetch_attempts THEN "try" ELSE "after_while"

\* The test of `while attempts < config.requests.fetch_attempts`.
WhileTest(a) == IF a < fetch_attempts THEN "try" ELSE "after_while"

\* get_cats(config) is called: a reconciliation cycle starts.
get_cats_call ==
    /\ pc \in CallStarts
    /\ prev' = IF pc = "completed" THEN <<"set", Range(result)>> ELSE None
    /\ attempts' = 0
    /\ response' = None
    /\ log' = <<>>
    /\ succeeded' = FALSE
    /\ parsed' = None
    /\ result' = <<>>
    /\ exc' = "none"
    /\ new_cat_ids' = {}
    /\ adopted_cat_ids' = {}
    /\ events' = <<>>
    /\ db0' = db
    /\ con0' = con
    /\ pc' = WhileTest(0)
    /\ arg' = None
    /\ ret' = None
    /\ UNCHANGED <<fetch_attempts, con, cur, opened, db, ageVars>>

\* The try block: requests.get, raise_for_status, break.
get_cats_try ==
    /\ pc = "try"
    /\ \E o \in Outcomes :
          LET r == IF o.raised # "none" THEN response ELSE o.value
              e == IF o.raised # "none" THEN o.raised ELSE raise_for_status(r).raised
          IN  /\ response' = r
              /\ log' = Append(log, "get")
              /\ IF e = "none"
                 THEN pc' = "after_while" /\ succeeded' = TRUE /\ exc' = exc
                 ELSE IF IsRequestException(e)
                 THEN pc' = "except" /\ succeeded' = succeeded /\ exc' = exc
                 ELSE pc' = "get_cats_raised" /\ succeeded' = succeeded /\ exc' = e
    /\ UNCHANGED <<fetch_attempts, attempts, parsed, result, con, cur, opened, db, db0,
                   con0, cycleVars, queryVars, ageVars>>

\* After the except clause: time.sleep(fetch_sleep); attempts += 1.
get_cats_sleep ==
    /\ pc = "except"
    /\ log' = Append(log, "sleep")
    /\ attempts' = attempts + 1
    /\ pc' = WhileTest(attempts + 1)
    /\ UNCHANGED <<fetch_attempts, response, succeeded, parsed, result, exc,
                   con, cur, opened, db, db0, con0,
                   cycleVars, queryVars, ageVars>>

\* The list get_cats returns when it gives up: `return []`.
FetchFailure == <<>>

\* A test of the response alone.
GaveUpWithoutResponse(r, a) == r = None

\* `if response is None or attempts == config.requests.fetch_attempts`
GaveUp(r, a) == r = None \/ a = fetch_attempts

\* After the loop: the failure return, or the parse of response.text.
get_cats_return ==
    /\ pc = "after_while"
    /\ IF GaveUp(response, attempts)
       THEN /\ result' = FetchFailure
            /\ parsed' = None
            /\ pc' = "returned"
            /\ exc' = exc
       ELSE LET cats == ParseDivs(response[3])
            IN  /\ parsed' = response
                /\ result' = IF cats.raised = "none" THEN cats.value ELSE <<>>
                /\ pc' = IF cats.raised = "none" THEN "returned" ELSE "get_cats_raised"
                /\ exc' = cats.raised
    /\ UNCHANGED <<fetch_attempts, attempts, response, log, succeeded,
                   con, cur, opened, db, db0, con0,
                   cycleVars, queryVars, ageVars>>

\* The fetch of the cycle exhausted its attempts.
FetchExhausted == ~succeeded

\* The cycle whose fetch exhausted its attempts ends in SkippedNoData.
SkipNoData ==
    /\ pc = "returned"
    /\ FetchExhausted
    /\ pc' = SkippedNoData
    /\ UNCHANGED <<fetchVars, exc, con, cur, opened, db, db0, con0,
                   cycleVars, queryVars, ageVars>>

\* CatDB.process_cats(cats), called with the list get_cats returned.
ProcessCats ==
    /\ pc = "returned"
    /\ LET r == process_cats(Self, result)
       IN  /\ new_cat_ids' = r.new_cat_ids
           /\ adopted_cat_ids' = r.adopted_cat_ids
           /\ events' = events \o r.sent
           /\ exc' = r.raised
           /\ pc' = IF r.raised = "none" THEN "completed" ELSE "process_cats_raised"
    /\ UNCHANGED <<fetchVars, con, cur, opened, db, db0, con0, prev, queryVars, ageVars>>

Next ==
    \/ InitializeDb
    \/ DisconnectFromDb
    \/ ConnectToDb
    \/ CreateTable
    \/ DropDb
    \/ IsDbSchemaValid
    \/ GetCatIds
    \/ GetCats
    \/ get_cats_call
    \/ get_cats_try
    \/ get_cats_sleep
    \/ get_cats_return
    \/ SkipNoData
    \/ ProcessCats

Spec == Init /\ [][Next]_vars

(***************************************************************************)
(* The two age functions, called on their own.  An age text is a sequence  *)
(* of "<quantity> <unit>" parts joined by ", ", followed or not by "old".  *)
(***************************************************************************)
\* The part of a text for a quantity, none when the quantity is absent.
TextPart(q, unit) ==
    IF q < 0 THEN <<>> ELSE << <<q, IF q = 1 THEN unit ELSE unit \o "s">> >>

Reverse(seq) == [i \in 1..Len(seq) |-> seq[Len(seq) + 1 - i]]

Quantities == -1..MaxQuantity

AgeText(y, m, w, d, old, reversed) ==
    LET parts == TextPart(y, "year") \o TextPart(m, "month")
                 \o TextPart(w, "week") \o TextPart(d, "day")
    IN  Age(IF reversed THEN Reverse(parts) ELSE parts, old)

AgeTexts ==
    {AgeText(y, m, w, d, old, reversed) :
        y \in Quantities, m \in Quantities, w \in Quantities, d \in Quantities,
        old \in BOOLEAN, reversed \in BOOLEAN}

\* A cat with some age, or a text of the age field of a card.
AgeInit ==
    /\ InitStore
    /\ fetch_attempts = 1
    /\ db = NoTable
    /\ age_pc = "input"
    /\ \/ cat_age \in 0..MaxAge /\ cat_age_string = Age(<<>>, FALSE)
       \/ cat_age = 0 /\ cat_age_string \in AgeTexts
    /\ readable_age = ""
    /\ parsed_age = 0

\* parse_cat_age_string(cat_age_string)
ParseCatAgeString ==
    /\ age_pc = "input"
    /\ parsed_age' = parse_cat_age_string(cat_age_string)
    /\ age_pc' = "parse_cat_age_string"
    /\ UNCHANGED <<mainVars, cat_age, readable_age, cat_age_string>>

\* cat.get_human_readable_age()
GetHumanReadableAge ==
    /\ age_pc = "input"
    /\ readable_age' = get_human_readable_age(cat_age)
    /\ age_pc' = "get_human_readable_age"
    /\ UNCHANGED <<mainVars, cat_age, cat_age_string, parsed_age>>

\* The string an age text stands for.
StringOf(t) ==
    Join([i \in 1..Len(t[2]) |-> ToString(t[2][i][1]) \o " " \o t[2][i][2]])
    \o (IF t[3] THEN " old" ELSE "")

\* The texts among which the one of a rendered age is found.
RenderedTexts ==
    {AgeText(y, m, w, d, FALSE, FALSE) :
        y \in -1..(MaxAge \div 365 + 1), m \in -1..12, w \in -1..4, d \in -1..6}

\* The age text a string is.
TextOf(str) == CHOOSE t \in RenderedTexts : StringOf(t) = str

\* parse_cat_age_string(cat.get_human_readable_age())
ParseReadableAge ==
    /\ age_pc = "get_human_readable_age"
    /\ cat_age_string' = TextOf(readable_age)
    /\ parsed_age' = parse_cat_age_string(TextOf(readable_age))
    /\ age_pc' = "round_trip"
    /\ UNCHANGED <<mainVars, cat_age, readable_age>>

AgeNext == ParseCatAgeString \/ GetHumanReadableAge \/ ParseReadableAge

AgeSpec == AgeInit /\ [][AgeNext]_vars

TypeOK ==
    /\ pc \in CallStarts \cup {"try", "except", "after_while"}
    /\ attempts \in 0..fetch_attempts
    /\ opened \in 0..1

(***************************************************************************)
(* The properties.                                                         *)
(***************************************************************************)
\* The identifiers persisted in a file.
StoreIds(d) == IF HasColumn(d, "pet_id") THEN {r.pet_id : r \in d.rows} ELSE {}

\* The identifiers of the current parse.
CurrentIds == {result[i].id : i \in 1..Len(result)}

\* process_cats has run in the current cycle, on a connected store.
Reconciled == pc \in {"completed", "process_cats_raised"} /\ Truthy(cur)

\* The messages of the current cycle on a topic.
Sent(topic) == SelectSeq(events, LAMBDA m : m.topic = topic)

\* The numbers of requests.get and of time.sleep calls of get_cats so far.
Requests == Cardinality({i \in 1..Len(log) : log[i] = "get"})
Sleeps == Cardinality({i \in 1..Len(log) : log[i] = "sleep"})

\* get_cats has returned and none of its attempts succeeded.
Exhausted ==
    pc \in {"returned", SkippedNoData, "completed", "process_cats_raised"} /\ ~succeeded

\* C1: after process_cats, the added set is the current identifiers minus
\* the prior store identifiers and the removed set is the prior store
\* identifiers minus the current ones.
C1_AddedRemovedAreSetDifferences ==
    Reconciled =>
        /\ new_cat_ids = CurrentIds \ StoreIds(db0)
        /\ adopted_cat_ids = StoreIds(db0) \ CurrentIds

\* C2: after a cycle that completed, the identifiers persisted in the store
\* are exactly the identifiers of the current parse.
C2_StoreEqualsCurrentParse ==
    (pc = "completed" /\ Truthy(cur)) => StoreIds(db) = CurrentIds

\* C3: a cycle that follows a completed cycle with the same records computes
\* empty added and removed sets, sends no message and leaves the store as
\* it was.
C3_SecondCycleIsIdle ==
    (Reconciled /\ prev = <<"set", Range(result)>>) =>
        /\ new_cat_ids = {}
        /\ adopted_cat_ids = {}
        /\ events = <<>>
        /\ pc = "completed"
        /\ db = db0

\* get_cats is over after fetch_attempts requests, none of which succeeded.
AllAttemptsFailed ==
    /\ pc \notin {"try", "except", "after_while"}
    /\ Requests = fetch_attempts
    /\ ~succeeded

\* C4: a fetch whose attempts all failed raises nothing and returns the
\* failure value; its cycle, skipped or ended by process_cats of that
\* value, leaves the store as it was before the cycle and sends no
\* message, whatever the store held; the skipped cycle computes nothing.
C4_ExhaustedFetchSkipsCycle ==
    /\ AllAttemptsFailed => (pc # "get_cats_raised" /\ result = FetchFailure)
    /\ Exhausted => (events = <<>> /\ db = db0)
    /\ (Exhausted /\ pc = SkippedNoData) =>
          /\ exc = "none"
          /\ new_cat_ids = {}
          /\ adopted_cat_ids = {}

C4_Witness ==
    /\ pc = SkippedNoData
    /\ Requests = fetch_attempts
    /\ response # None
    /\ Truthy(cur)
    /\ db.exists
    /\ db.columns = CreateTableColumns
    /\ db.rows # {}
    /\ events = <<>>

\* C5: while every attempt fails, get_cats never issues more than
\* fetch_attempts requests and no exception escapes it; once it has
\* returned it has issued exactly fetch_attempts requests and returned the
\* failure result.
C5_ExactlyNRequestsThenFailure ==
    ~succeeded =>
        /\ Requests <= fetch_attempts
        /\ pc # "get_cats_raised"
        /\ Exhausted => (Requests = fetch_attempts /\ result = FetchFailure)

C5_Witness ==
    /\ pc = "returned"
    /\ ~succeeded
    /\ fetch_attempts > 1
    /\ Requests = fetch_attempts
    /\ response # None

\* C6: a run of fetch_attempts failing attempts sleeps fetch_attempts - 1
\* times, each sleep followed by another attempt.
C6_SleepsOnlyBetweenAttempts ==
    (pc = "returned" /\ ~succeeded) =>
        /\ Sleeps = fetch_attempts - 1
        /\ \A i \in 1..Len(log) :
              log[i] = "sleep" => (i < Len(log) /\ log[i + 1] = "get")

\* C7: the value a successful fetch returns is never the value returned
\* after all attempts failed.
C7_SuccessDiffersFromFailure ==
    (pc = "returned" /\ succeeded) => result # FetchFailure

\* C8: the cats.new message is sent exactly when current minus prior is not
\* empty, at most once, and carries exactly the current records whose
\* identifier is in that set.
C8_AddedEventCarriesOnlyAdded ==
    Reconciled =>
        LET added == CurrentIds \ StoreIds(db0)
        IN  /\ Len(Sent("cats.new")) = IF added # {} THEN 1 ELSE 0
            /\ \A i \in 1..Len(Sent("cats.new")) :
                  Sent("cats.new")[i].cats = SelectSeq(result, LAMBDA cat : cat.id \in added)

\* C9: the cats.adopted message is sent exactly when prior minus current is
\* not empty, at most once, and carries one record per removed identifier.
C9_RemovedEventCarriesRemoved ==
    Reconciled =>
        LET removed == StoreIds(db0) \ CurrentIds
        IN  /\ Len(Sent("cats.adopted")) = IF removed # {} THEN 1 ELSE 0
            /\ \A i \in 1..Len(Sent("cats.adopted")) :
                  LET cats == Sent("cats.adopted")[i].cats
                  IN  /\ Len(cats) = Cardinality(removed)
                      /\ {cats[k].id : k \in 1..Len(cats)} = removed

\* C10: initialize_db on a file without the table, or with a table whose
\* columns drifted from the expected ones, leaves a table whose column
\* descriptors are DB_SCHEMA and that has no rows.
C10_DriftedTableIsRecreated ==
    (pc = "initialize_db" /\ (~db0.exists \/ db0.columns \in DriftedColumns)) =>
        /\ TableInfo(db) = DB_SCHEMA
        /\ db.rows = {}

C10_Witness ==
    /\ pc = "initialize_db"
    /\ db0.exists
    /\ db0.columns = SwapColumns(CreateTableColumns, 3, 4)
    /\ db0.rows # {}
    /\ db.exists
    /\ db.rows = {}

\* The store is connected and its table has the expected columns.
Ready(c, d) == Truthy(c) /\ d.exists /\ d.columns = CreateTableColumns

\* C11: initialize_db on a file whose table has the expected columns leaves
\* the file as it was and exactly one connection open; called on a
\* connected store it keeps the connection it had.
C11_ValidTableIsKept ==
    (pc = "initialize_db" /\ db0.exists /\ db0.columns = CreateTableColumns) =>
        /\ db = db0
        /\ opened = 1
        /\ con0 # None => con = con0

C11_Witness ==
    /\ pc = "initialize_db"
    /\ con0 = Connection
    /\ db0.columns = CreateTableColumns
    /\ db0.rows # {}
    /\ db = db0
    /\ opened = 1

\* The value a store method returns when there is no cursor.
EmptyValue(op) ==
    CASE op = "get_cat_ids" -> <<"set", {}>>
      [] op = "get_cats" -> PyTuple(<<>>)
      [] op = "_is_db_schema_valid" -> <<"bool", FALSE>>
      [] OTHER -> None

\* C12: get_cat_ids, get_cats, _is_db_schema_valid, _drop_db and
\* _initialize_db called on a store without connection return their empty
\* value, raise nothing and leave the object and the file as they were.
C12_NoConnectionGivesEmptyValue ==
    (/\ pc \in {"get_cat_ids", "get_cats", "_is_db_schema_valid", "_drop_db",
                "_initialize_db"}
     /\ con0 = None) =>
        /\ exc = "none"
        /\ ret = EmptyValue(pc)
        /\ con = None
        /\ cur = None
        /\ opened = 0
        /\ db = db0

C12_Witness ==
    /\ pc = "_drop_db"
    /\ con0 = None
    /\ db.exists
    /\ db.columns = CreateTableColumns
    /\ db.rows # {}

\* C13: after every call of _disconnect_from_db, whatever the state it was
\* called in, the object has neither connection nor cursor, no connection
\* is open and nothing was raised.
C13_DisconnectAlwaysDisconnects ==
    pc = "_disconnect_from_db" =>
        /\ con = None
        /\ cur = None
        /\ opened = 0
        /\ exc = "none"

C13_Witness ==
    /\ pc = "_disconnect_from_db"
    /\ con0 = None
    /\ con = None
    /\ cur = None

\* C14: on a connected store with the expected table, get_cats(S) raises
\* nothing and returns one record per stored identifier of S, and no other.
C14_GetCatsReturnsTheStoredOnesOfS ==
    (pc = "get_cats" /\ Ready(con0, db0)) =>
        /\ exc = "none"
        /\ Len(ret[2]) = Cardinality(arg[2] \cap StoreIds(db0))
        /\ {ret[2][k].id : k \in 1..Len(ret[2])} = arg[2] \cap StoreIds(db0)

\* The record the columns of a row stand for: the identifier is pet_id,
\* NULL is the default of the field, a gender is the member of that value.
Decoded(row) ==
    [url |-> IF row.url = None THEN PyStr("") ELSE row.url,
     image |-> IF row.image = None THEN PyStr("") ELSE row.image,
     name |-> IF row.name = None THEN PyStr("") ELSE row.name,
     id |-> IF row.pet_id = None THEN PyStr("") ELSE row.pet_id,
     gender |-> IF row.gender = None THEN None ELSE Gender(row.gender[2]),
     color |-> IF row.color = None THEN PyStr("") ELSE row.color,
     breed |-> IF row.breed = None THEN PyStr("") ELSE row.breed,
     age |-> IF row.age = None THEN PyInt(0) ELSE row.age]

\* C15: the record get_cats returns for one stored identifier is the
\* decoding of its row, and the decoding raises nothing.
C15_RowDecodingIsFaithful ==
    (pc = "get_cats" /\ Ready(con0, db0)) =>
        \A row \in db0.rows :
            arg[2] = {row.pet_id} => (exc = "none" /\ ret[2] = <<Decoded(row)>>)

C17_ParseNeverRaisesNorDrops ==
    (succeeded /\ pc \in {"returned", "get_cats_raised"}) =>
        /\ pc = "returned"
        /\ Len(result) = Len(response[3])
        /\ \A i \in 1..Len(result) : result[i].age[2] >= 0

\* The quantity in front of the first year, month or week of a text, 0
\* when the text has none.
Matched(t, unit) ==
    LET qs == t[2]
        hits == {i \in 1..Len(qs) : qs[i][2] \in {unit, unit \o "s"}}
    IN  IF hits = {} THEN 0
        ELSE qs[CHOOSE i \in hits : \A j \in hits : i <= j][1]

\* C18: parse_cat_age_string returns 365 y + 30 m + 7 w for the matched
\* quantities of years, months and weeks, days adding nothing: 0 for "old",
\* 150 for "5 months", 751 for "2 years, 3 weeks old".
C18_AgeIsYearsMonthsWeeks ==
    age_pc = "parse_cat_age_string" =>
        /\ parsed_age = 365 * Matched(cat_age_string, "year")
                        + 30 * Matched(cat_age_string, "month")
                        + 7 * Matched(cat_age_string, "week")
        /\ cat_age_string = Age(<<>>, TRUE) => parsed_age = 0
        /\ cat_age_string = Age(<< <<5, "months">> >>, FALSE) => parsed_age = 150
        /\ cat_age_string = Age(<< <<2, "years">>, <<3, "weeks">> >>, TRUE)
               => parsed_age = 751

C18_Witness ==
    /\ age_pc = "parse_cat_age_string"
    /\ cat_age_string = Age(<< <<2, "years">>, <<3, "weeks">>, <<4, "days">> >>, TRUE)
    /\ parsed_age = 751

\* The rendering of a quantity of a unit: nothing for 0, singular for 1.
Shown(n, unit) ==
    IF n = 0 THEN <<>>
    ELSE IF n = 1 THEN <<"1 " \o unit>>
    ELSE <<ToString(n) \o " " \o unit \o "s">>

\* C19: get_human_readable_age splits the age into years of 365, months of
\* 30, weeks of 7 and days, largest unit first, with at most 6 days, and
\* renders the non-zero components in that order joined by ", ", singular
\* for 1: "" for 0, "1 day" for 1, "2 years, 3 weeks" for 751.
C19_AgeIsRenderedGreedily ==
    age_pc = "get_human_readable_age" =>
        /\ \E y \in 0..(cat_age \div 365), m \in 0..12, w \in 0..4, d \in 0..6 :
              /\ 365 * y + 30 * m + 7 * w + d = cat_age
              /\ 30 * m + 7 * w + d < 365
              /\ 7 * w + d < 30
              /\ readable_age = Join(Shown(y, "year") \o Shown(m, "month")
                                     \o Shown(w, "week") \o Shown(d, "day"))
        /\ cat_age = 0 => readable_age = ""
        /\ cat_age = 1 => readable_age = "1 day"
        /\ cat_age = 751 => readable_age = "2 years, 3 weeks"

C19_Witness ==
    /\ age_pc = "get_human_readable_age"
    /\ cat_age = 751
    /\ readable_age = "2 years, 3 weeks"

\* C20: when an attempt of get_cats succeeds after k - 1 failed ones, k
\* requests were made, the last of them the one that succeeded, k is at
\* most fetch_attempts, and get_cats returns the records parsed from that
\* response, also when k = fetch_attempts.
C20_SuccessOnAttemptK ==
    (succeeded /\ pc \in {"returned", "get_cats_raised"}) =>
        /\ Requests = attempts + 1
        /\ Requests <= fetch_attempts
        /\ log[Len(log)] = "get"
        /\ pc = "returned"
        /\ parsed = response
        /\ Len(result) = Len(response[3])

\* C21: the response get_cats parses is the one of the attempt that
\* succeeded, its status check passed; a response kept from an attempt
\* that failed is never parsed.
C21_OnlyASuccessfulResponseIsParsed ==
    parsed # None =>
        /\ succeeded
        /\ parsed = response
        /\ raise_for_status(parsed).raised = "none"

C21_Witness ==
    /\ pc = "returned"
    /\ response # None
    /\ raise_for_status(response).raised = "HTTPError"
    /\ Len(response[3]) = 1
    /\ Requests >= 2
    /\ parsed = None
    /\ result = <<>>

\* The identifiers of the records a cycle sent on a topic.
SentIds(topic) ==
    UNION {{Sent(topic)[i].cats[k].id : k \in 1..Len(Sent(topic)[i].cats)}
           : i \in 1..Len(Sent(topic))}

\* C22: in one cycle the added and the removed set are disjoint, the added
\* set holds current identifiers only, the removed set prior store
\* identifiers only, and an identifier both stored and current is in
\* neither set and in neither message.
C22_AddedAndRemovedAreDisjoint ==
    Reconciled =>
        /\ new_cat_ids \cap adopted_cat_ids = {}
        /\ new_cat_ids \subseteq CurrentIds
        /\ adopted_cat_ids \subseteq StoreIds(db0)
        /\ \A id \in CurrentIds \cap StoreIds(db0) :
              /\ id \notin new_cat_ids \cup adopted_cat_ids
              /\ id \notin SentIds("cats.new") \cup SentIds("cats.adopted")

\* C23: parsing the rendering of an age n gives n minus the days left
\* after the years, months and weeks, so it gives n exactly when the
\* rendering has no day part.
C23_RoundTripLosesTheDays ==
    age_pc = "round_trip" =>
        /\ parsed_age = cat_age - (((cat_age % 365) % 30) % 7)
        /\ parsed_age = cat_age <=> Matched(cat_age_string, "day") = 0

C23_Witness ==
    /\ age_pc = "round_trip"
    /\ cat_age = 400
    /\ readable_age = "1 year, 1 month, 5 days"
    /\ parsed_age = 395

\* C24: in every state the object has a connection exactly when it has a
\* cursor, and at most one connection is open, which is the one it has.
C24_ConnectionAndCursorGoTogether ==
    /\ con = None <=> cur = None
    /\ opened <= 1
    /\ opened = 1 <=> con # None

C24_Witness ==
    /\ pc = "_connect_to_db"
    /\ con0 = Connection
    /\ con = Connection
    /\ cur = Cursor
    /\ opened = 1

====
